---- MODULE Spec2Model ----
(***************************************************************************)
(* repl-rs: the Parameter / Command builders, the line tokenizer, the      *)
(* positional argument binder and the run loop of Repl.                    *)
(*                                                                         *)
(* A Rust String is a sequence of one-character strings, an Option is a    *)
(* sequence of length 0 (None) or 1 (Some), a HashMap is a function whose  *)
(* domain is its key set, and a Result is a record [ok, val, err].         *)
(***************************************************************************)
EXTENDS Integers, Sequences, FiniteSets, TLC

\* ------------------------------------------------------------------------
\* Bounds of the model
\* ------------------------------------------------------------------------
MaxParameters == 2
MaxArgs == 3
MaxLineLen == 8
MaxLines == 3

\* ------------------------------------------------------------------------
\* Characters and strings
\* ------------------------------------------------------------------------
Quote == "\""
Newline == "\n"
Whitespace == {" ", "\t", Newline}

Str_f == <<"f">>
Str_x == <<"x">>
Str_a == <<"a">>
Str_b == <<"b">>
Str_help == <<"h", "e", "l", "p">>

None == <<>>
Some(v) == <<v>>
is_some(o) == o # <<>>
unwrap(o) == o[1]

Range(s) == {s[i] : i \in 1..Len(s)}

\* ------------------------------------------------------------------------
\* error.rs : Error and Result
\* ------------------------------------------------------------------------
IllegalRequiredError(p) == [kind |-> "IllegalRequiredError", strs |-> <<p>>, n |-> 0]
IllegalDefaultError(p) == [kind |-> "IllegalDefaultError", strs |-> <<p>>, n |-> 0]
MissingRequiredArgument(c, p) == [kind |-> "MissingRequiredArgument", strs |-> <<c, p>>, n |-> 0]
TooManyArguments(c, max) == [kind |-> "TooManyArguments", strs |-> <<c>>, n |-> max]
CommandError(msg) == [kind |-> "CommandError", strs |-> <<msg>>, n |-> 0]
UnknownCommand(c) == [kind |-> "UnknownCommand", strs |-> <<c>>, n |-> 0]
\* ParseIntError wraps num::ParseIntError; n is its IntErrorKind (0 Empty,
\* 1 InvalidDigit, 2 PosOverflow, 3 NegOverflow).
ParseIntError(error) == [kind |-> "ParseIntError", strs |-> <<>>, n |-> error]

Ok(v) == [ok |-> TRUE, val |-> <<v>>, err |-> <<>>]
Err(e) == [ok |-> FALSE, val |-> <<>>, err |-> <<e>>]

\* impl From<num::ParseIntError> for Error
From_ParseIntError_as_command_error(error) == CommandError(<<"e">>)

From_ParseIntError(error) == ParseIntError(error)

\* ------------------------------------------------------------------------
\* command_def.rs : Parameter
\* ------------------------------------------------------------------------
ParameterNames == {Str_a, Str_b}
Defaults == {<<"d">>}

Parameter_new(name) == [name |-> name, required |-> FALSE, default |-> None]

set_required_false_accepted(self, required) ==
    IF is_some(self.default) /\ required
    THEN Err(IllegalRequiredError(self.name))
    ELSE Ok([self EXCEPT !.required = required])

set_required_unchecked(self, required) ==
    Ok([self EXCEPT !.required = required])

set_required(self, required) ==
    IF is_some(self.default)
    THEN Err(IllegalRequiredError(self.name))
    ELSE Ok([self EXCEPT !.required = required])

set_default_unchecked(self, default) ==
    Ok([self EXCEPT !.default = Some(default)])

set_default(self, default) ==
    IF self.required
    THEN Err(IllegalDefaultError(self.name))
    ELSE Ok([self EXCEPT !.default = Some(default)])

\* ------------------------------------------------------------------------
\* command.rs : Command
\* ------------------------------------------------------------------------
CommandNames == {Str_f, Str_help}
Callbacks == {"foo"}
Summaries == {<<"s">>}

Command_new(name, callback) ==
    [name |-> name, parameters |-> <<>>, callback |-> callback, help_summary |-> None]

\* The value with_parameter returns, together with `self` as it is when the
\* function returns: on Err the command has been moved into the call and is
\* dropped there, so `self` is the value that gets dropped.
push(self, parameter) == [self EXCEPT !.parameters = Append(@, parameter)]

with_parameter_unchecked(self, parameter) ==
    [res |-> Ok(push(self, parameter)), self |-> push(self, parameter)]

with_parameter_push_first(self, parameter) ==
    IF parameter.required /\ \E i \in 1..Len(self.parameters) : ~self.parameters[i].required
    THEN [res |-> Err(IllegalRequiredError(parameter.name)), self |-> push(self, parameter)]
    ELSE [res |-> Ok(push(self, parameter)), self |-> push(self, parameter)]

with_parameter(self, parameter) ==
    IF parameter.required /\ \E i \in 1..Len(self.parameters) : ~self.parameters[i].required
    THEN [res |-> Err(IllegalRequiredError(parameter.name)), self |-> self]
    ELSE [res |-> Ok(push(self, parameter)), self |-> push(self, parameter)]

with_help(self, help) == [self EXCEPT !.help_summary = Some(help)]

\* ------------------------------------------------------------------------
\* repl.rs : the tokenizer of process_line
\* ------------------------------------------------------------------------
RECURSIVE trim_start(_)
trim_start(s) ==
    IF s = <<>> THEN <<>>
    ELSE IF s[1] \in Whitespace THEN trim_start(Tail(s)) ELSE s

RECURSIVE trim_end(_)
trim_end(s) ==
    IF s = <<>> THEN <<>>
    ELSE IF s[Len(s)] \in Whitespace THEN trim_end(SubSeq(s, 1, Len(s) - 1)) ELSE s

trim(s) == trim_end(trim_start(s))

\* [^"\n]+ from position i: the first position at or after i that the class
\* does not accept (Len(s) + 1 when the class accepts up to the end).
RECURSIVE quoted_body_end(_, _)
quoted_body_end(s, i) ==
    IF i > Len(s) \/ s[i] = Quote \/ s[i] = Newline THEN i
    ELSE quoted_body_end(s, i + 1)

\* [\S]+ from position i: the last position of the whitespace-free run.
RECURSIVE non_space_end(_, _)
non_space_end(s, i) ==
    IF i + 1 > Len(s) \/ s[i + 1] \in Whitespace THEN i
    ELSE non_space_end(s, i + 1)

\* The end of the match of ("[^"\n]+"|[\S]+) anchored at i, 0 when there is
\* none; the first alternative is preferred.
regex_match_no_quotes(s, i) ==
    IF s[i] \in Whitespace THEN 0 ELSE non_space_end(s, i)

regex_alternatives(s, i, j) ==
    IF s[i] = Quote /\ j > i + 1 /\ j <= Len(s) /\ s[j] = Quote THEN j
    ELSE IF s[i] \in Whitespace THEN 0
    ELSE non_space_end(s, i)

regex_match(s, i) == regex_alternatives(s, i, quoted_body_end(s, i + 1))

\* captures_iter: the successive non-overlapping leftmost matches, as spans.
RECURSIVE captures_iter(_, _)
captures_next(s, i, e) ==
    IF e = 0 THEN captures_iter(s, i + 1)
    ELSE <<[from |-> i, to |-> e]>> \o captures_iter(s, e + 1)

captures_iter(s, i) ==
    IF i > Len(s) THEN <<>> ELSE captures_next(s, i, regex_match(s, i))

replace_quotes_enclosing(s) ==
    IF Len(s) >= 2 /\ s[1] = Quote /\ s[Len(s)] = Quote
    THEN SubSeq(s, 2, Len(s) - 1)
    ELSE s

replace_quotes(s) == SelectSeq(s, LAMBDA c : c # Quote)

\* The Vec<String> that process_line collects from a trimmed line.
collect(trimmed, caps) ==
    [k \in 1..Len(caps) |-> replace_quotes(SubSeq(trimmed, caps[k].from, caps[k].to))]

tokenize(trimmed) == collect(trimmed, captures_iter(trimmed, 1))

\* ------------------------------------------------------------------------
\* repl.rs : validate_arguments
\* ------------------------------------------------------------------------
Value_new(s) == [value |-> s]

EmptyMap == [k \in {} |-> Value_new(<<>>)]
insert(map, key, value) ==
    [k \in (DOMAIN map) \cup {key} |-> IF k = key THEN value ELSE map[k]]

RECURSIVE validate_loop_last_missing(_, _, _, _, _)
validate_loop_last_missing(command, parameters, args, index, validated) ==
    IF index > Len(parameters) THEN Ok(validated)
    ELSE IF index <= Len(args)
    THEN validate_loop_last_missing(command, parameters, args, index + 1,
                                    insert(validated, parameters[index].name,
                                           Value_new(args[index])))
    ELSE IF parameters[index].required
    THEN Err(MissingRequiredArgument(command, parameters[Len(parameters)].name))
    ELSE IF is_some(parameters[index].default)
    THEN validate_loop_last_missing(command, parameters, args, index + 1,
                                    insert(validated, parameters[index].name,
                                           Value_new(unwrap(parameters[index].default))))
    ELSE validate_loop_last_missing(command, parameters, args, index + 1, validated)

RECURSIVE validate_loop(_, _, _, _, _)
validate_loop(command, parameters, args, index, validated) ==
    IF index > Len(parameters) THEN Ok(validated)
    ELSE IF index <= Len(args)
    THEN validate_loop(command, parameters, args, index + 1,
                       insert(validated, parameters[index].name, Value_new(args[index])))
    ELSE IF parameters[index].required
    THEN Err(MissingRequiredArgument(command, parameters[index].name))
    ELSE IF is_some(parameters[index].default)
    THEN validate_loop(command, parameters, args, index + 1,
                       insert(validated, parameters[index].name,
                              Value_new(unwrap(parameters[index].default))))
    ELSE validate_loop(command, parameters, args, index + 1, validated)

validate_arguments_ge(command, parameters, args) ==
    IF Len(args) >= Len(parameters)
    THEN Err(TooManyArguments(command, Len(parameters)))
    ELSE validate_loop(command, parameters, args, 1, EmptyMap)

validate_arguments(command, parameters, args) ==
    IF Len(args) > Len(parameters)
    THEN Err(TooManyArguments(command, Len(parameters)))
    ELSE validate_loop(command, parameters, args, 1, EmptyMap)

\* ------------------------------------------------------------------------
\* help.rs : HelpEntry, HelpContext, DefaultHelpViewer
\* ------------------------------------------------------------------------
CharOrder == <<"\t", "\n", " ", "\"", "-", ":", "[", "]", "a", "b", "d", "e",
               "f", "h", "l", "o", "p", "s", "x">>
char_code(c) == CHOOSE i \in 1..Len(CharOrder) : CharOrder[i] = c

\* a <= b in the order of Rust's String (lexicographic by character).
RECURSIVE str_le(_, _)
str_le(a, b) ==
    IF a = <<>> THEN TRUE
    ELSE IF b = <<>> THEN FALSE
    ELSE IF a[1] = b[1] THEN str_le(Tail(a), Tail(b))
    ELSE char_code(a[1]) < char_code(b[1])

Text(line) == [kind |-> "text", strs |-> <<line>>, n |-> 0]
Display(error) == error

HelpEntry_new(name, parameters, summary) ==
    [command |-> name,
     parameters |-> [i \in 1..Len(parameters) |-> <<parameters[i].name, parameters[i].required>>],
     summary |-> summary]

HelpContext_new(app_name, app_version, app_purpose, help_entries) ==
    [app_name |-> app_name, app_version |-> app_version,
     app_purpose |-> app_purpose, help_entries |-> help_entries]

RECURSIVE sort_by_key(_)
sort_first(entries, first) == <<first>> \o sort_by_key(entries \ {first})

RECURSIVE sort_by_key_descending(_)
sort_last(entries, last) == <<last>> \o sort_by_key_descending(entries \ {last})

sort_by_key_descending(entries) ==
    IF entries = {} THEN <<>>
    ELSE sort_last(entries,
                   CHOOSE e \in entries : \A o \in entries : str_le(o.command, e.command))

sort_by_key(entries) ==
    IF entries = {} THEN <<>>
    ELSE sort_first(entries,
                    CHOOSE e \in entries : \A o \in entries : str_le(e.command, o.command))

header_lines(header) ==
    <<Text(header), [kind |-> "underline", strs |-> <<>>, n |-> Len(header)]>>

print_help_header(out, context) ==
    out \o header_lines(context.app_name \o <<" ">> \o context.app_version
                        \o <<":", " ">> \o context.app_purpose)

RECURSIVE help_entries_lines(_, _)
entry_line(entry) ==
    IF is_some(entry.summary)
    THEN entry.command \o <<" ", "-", " ">> \o unwrap(entry.summary)
    ELSE entry.command

help_entries_lines(entries, i) ==
    IF i > Len(entries) THEN <<>>
    ELSE <<Text(entry_line(entries[i]))>> \o help_entries_lines(entries, i + 1)

help_general(out, context) ==
    print_help_header(out, context) \o help_entries_lines(context.help_entries, 1)

RECURSIVE usage_parameters_all_required(_, _)
usage_parameters_all_required(params, i) ==
    IF i > Len(params) THEN <<>>
    ELSE <<" ">> \o params[i][1] \o usage_parameters_all_required(params, i + 1)

RECURSIVE usage_parameters(_, _)
usage_parameters(params, i) ==
    IF i > Len(params) THEN <<>>
    ELSE (IF params[i][2] THEN <<" ">> \o params[i][1]
          ELSE <<" ", "[">> \o params[i][1] \o <<"]">>)
         \o usage_parameters(params, i + 1)

help_command(out, entry) ==
    (IF is_some(entry.summary)
     THEN out \o <<Text(entry.command \o <<":", " ">> \o unwrap(entry.summary))>>
     ELSE out)
    \o <<Text(<<"U", "s", "a", "g", "e", ":">>),
         Text(<<"\t">> \o entry.command \o usage_parameters(entry.parameters, 1))>>

\* ------------------------------------------------------------------------
\* repl.rs : Repl
\* ------------------------------------------------------------------------
ErrorHandlers == {"default_error_handler", "test_error_handler"}
Unit == <<>>

Repl_new(context) ==
    [commands |-> [k \in {} |-> Command_new(<<>>, "foo")],
     context |-> context,
     help_context |-> None,
     error_handler |-> "default_error_handler",
     use_completion |-> FALSE]

with_error_handler(self, handler) == [self EXCEPT !.error_handler = handler]

use_completion(self, value) == [self EXCEPT !.use_completion = value]

\* HashMap::insert returns the value the key had, if any; add_command drops it.
insert_replaced(self, cmd) ==
    IF cmd.name \in DOMAIN self.commands THEN Some(self.commands[cmd.name]) ELSE None

add_command_keep_first(self, cmd) ==
    [self EXCEPT !.commands =
        [k \in (DOMAIN @) \cup {cmd.name} |-> IF k \in DOMAIN @ THEN @[k] ELSE cmd]]

add_command(self, cmd) ==
    [self EXCEPT !.commands =
        [k \in (DOMAIN @) \cup {cmd.name} |-> IF k = cmd.name THEN cmd ELSE @[k]]]

construct_help_context(self) ==
    [self EXCEPT !.help_context =
        Some(HelpContext_new(<<>>, <<>>, <<>>,
             sort_by_key({HelpEntry_new(self.commands[k].name, self.commands[k].parameters,
                                        self.commands[k].help_summary) :
                          k \in DOMAIN self.commands})))]

\* The orders in which HashMap::keys() can yield the names of the table.
KeyOrders(self) ==
    {order \in [1..Cardinality(DOMAIN self.commands) -> DOMAIN self.commands] :
        \A i, j \in DOMAIN order : order[i] = order[j] => i = j}

\* Helper::new and the add_command calls of create_helper; `keys` is the
\* order in which self.commands.keys() yields the names.
Helper_new == [commands |-> <<>>]
create_helper(self, keys) ==
    IF self.use_completion THEN [Helper_new EXCEPT !.commands = keys] ELSE Helper_new

\* str::contains and str::starts_with
starts_with(cmd, line) ==
    Len(line) <= Len(cmd) /\ SubSeq(cmd, 1, Len(line)) = line
contains(cmd, line) ==
    \E i \in 0..(Len(cmd) - Len(line)) : SubSeq(cmd, i + 1, i + Len(line)) = line

\* Helper::complete: the position and the candidates.
complete(helper, line) ==
    [pos |-> 0, ret |-> SelectSeq(helper.commands, LAMBDA cmd : contains(cmd, line))]

\* The sinks and the record of calls made while one line is handled.
EmptyIo == [stdout |-> <<>>, stderr |-> <<>>, invoked |-> <<>>, handled |-> <<>>]

help_not_found(io, name) ==
    [io EXCEPT !.stderr = Append(@, [kind |-> "help_not_found", strs |-> <<name>>, n |-> 0])]

\* `found` are the positions of the entries that iter().find() accepts.
show_help_entry(io, entries, found, name) ==
    IF found # {}
    THEN [res |-> Ok(Unit),
          io |-> [io EXCEPT !.stdout =
                      help_command(@, entries[CHOOSE i \in found : \A j \in found : i <= j])]]
    ELSE [res |-> Ok(Unit), io |-> help_not_found(io, name)]

show_help_find(io, entries, name) ==
    show_help_entry(io, entries, {i \in 1..Len(entries) : entries[i].command = name}, name)

show_help(self, io, args) ==
    IF args = <<>>
    THEN [res |-> Ok(Unit),
          io |-> [io EXCEPT !.stdout = help_general(@, unwrap(self.help_context))]]
    ELSE show_help_find(io, unwrap(self.help_context).help_entries, args[1])

\* What the application's callback does in one invocation: its return value
\* (ret, with text for Ok(Some(text))) and the context it leaves behind.
Contexts == {"c0", "c1"}
CallbackRets == {"OkSome", "OkNone", "Err"}
CallbackText == <<"o">>
CallbackError == CommandError(<<"e">>)
CallbackBehaviours == [ret : CallbackRets, context : Contexts]

\* str::parse::<i32>: an optional sign and decimal digits; the value, or the
\* IntErrorKind of the failure.
DigitChars == <<"0", "1", "2", "3", "4", "5", "6", "7", "8", "9">>
digit_value(c) == (CHOOSE d \in 1..Len(DigitChars) : DigitChars[d] = c) - 1

\* The digits are accumulated with the sign, as checked_mul and
\* checked_add / checked_sub do it; 214748364 is i32::MAX / 10.
RECURSIVE parse_digits(_, _, _, _)
parse_digits(negative, digits, i, acc) ==
    IF i > Len(digits) THEN Ok(acc)
    ELSE IF (\A d \in 1..Len(DigitChars) : DigitChars[d] # digits[i]) THEN Err(1)
    ELSE IF negative
    THEN (IF acc < 0 - 214748364 \/ (acc = 0 - 214748364 /\ digit_value(digits[i]) > 8)
          THEN Err(3)
          ELSE parse_digits(negative, digits, i + 1, acc * 10 - digit_value(digits[i])))
    ELSE (IF acc > 214748364 \/ (acc = 214748364 /\ digit_value(digits[i]) > 7)
          THEN Err(2)
          ELSE parse_digits(negative, digits, i + 1, acc * 10 + digit_value(digits[i])))

parse_i32(text) ==
    IF text = <<>> THEN Err(0)
    ELSE IF text[1] \in {"+", "-"}
    THEN (IF Len(text) = 1 THEN Err(1)
          ELSE parse_digits(text[1] = "-", Tail(text), 1, 0))
    ELSE parse_digits(FALSE, text, 1, 0)

\* Convert<i32> for Value: the parsed value, or the parser's error turned
\* into Error by `?`.
convert_i32(value) ==
    IF parse_i32(value.value).ok THEN parse_i32(value.value)
    ELSE Err(From_ParseIntError(unwrap(parse_i32(value.value).err)))

\* i32::to_string
RECURSIVE to_string(_)
to_string(n) ==
    IF n < 0 THEN <<"-">> \o to_string(0 - n)
    ELSE IF n < 10 THEN <<DigitChars[n + 1]>>
    ELSE to_string(n \div 10) \o <<DigitChars[(n % 10) + 1]>>

\* The callback `add` of the examples: converts its two arguments (here the
\* parameters a and b) and returns their sum as text.
add(args) ==
    IF ~convert_i32(args[Str_a]).ok THEN convert_i32(args[Str_a])
    ELSE IF ~convert_i32(args[Str_b]).ok THEN convert_i32(args[Str_b])
    ELSE Ok(to_string(unwrap(convert_i32(args[Str_a]).val)
                      + unwrap(convert_i32(args[Str_b]).val)))

call_add(context, io, definition, validated, added) ==
    [res |-> IF added.ok THEN Ok(Unit) ELSE added,
     context |-> context,
     io |-> [io EXCEPT
               !.invoked = Append(@, [callback |-> definition.callback,
                                      command |-> definition.name,
                                      args |-> unwrap(validated.val),
                                      context |-> context,
                                      ret |-> IF added.ok THEN "OkSome" ELSE "Err"]),
               !.stdout = IF added.ok THEN Append(@, Text(unwrap(added.val))) ELSE @],
     validated |-> Some(validated)]

\* (definition.callback)(validated, &mut self.context) and the match on its
\* value; `validated` is the Ok value of validate_arguments.
call_callback_err_swallowed(context, io, definition, validated, cb) ==
    [res |-> Ok(Unit),
     context |-> cb.context,
     io |-> [io EXCEPT
               !.invoked = Append(@, [callback |-> definition.callback,
                                      command |-> definition.name,
                                      args |-> unwrap(validated.val),
                                      context |-> context,
                                      ret |-> cb.ret]),
               !.stdout = IF cb.ret = "OkSome" THEN Append(@, Text(CallbackText)) ELSE @],
     validated |-> Some(validated)]

call_callback(context, io, definition, validated, cb) ==
    IF definition.callback = "add"
    THEN call_add(context, io, definition, validated, add(unwrap(validated.val)))
    ELSE
    [res |-> IF cb.ret = "Err" THEN Err(CallbackError) ELSE Ok(Unit),
     context |-> cb.context,
     io |-> [io EXCEPT
               !.invoked = Append(@, [callback |-> definition.callback,
                                      command |-> definition.name,
                                      args |-> unwrap(validated.val),
                                      context |-> context,
                                      ret |-> cb.ret]),
               !.stdout = IF cb.ret = "OkSome" THEN Append(@, Text(CallbackText)) ELSE @],
     validated |-> Some(validated)]

handle_validated_calls_anyway(context, io, definition, validated, cb) ==
    IF ~validated.ok
    THEN [res |-> Err(unwrap(validated.err)), context |-> cb.context,
          io |-> [io EXCEPT
                    !.invoked = Append(@, [callback |-> definition.callback,
                                           command |-> definition.name,
                                           args |-> EmptyMap,
                                           context |-> context,
                                           ret |-> cb.ret])],
          validated |-> Some(validated)]
    ELSE call_callback(context, io, definition, validated, cb)

handle_validated(context, io, definition, validated, cb) ==
    IF ~validated.ok
    THEN [res |-> Err(unwrap(validated.err)), context |-> context, io |-> io,
          validated |-> Some(validated)]
    ELSE call_callback(context, io, definition, validated, cb)

handle_help(context, shown) ==
    [res |-> shown.res, context |-> context, io |-> shown.io, validated |-> None]

handle_command_unknown_ok(self, io, command, args, cb) ==
    IF command \in DOMAIN self.commands
    THEN handle_validated(self.context, io, self.commands[command],
                          validate_arguments(command, self.commands[command].parameters, args),
                          cb)
    ELSE IF command = Str_help
    THEN handle_help(self.context, show_help(self, io, args))
    ELSE [res |-> Ok(Unit), context |-> self.context, io |-> io, validated |-> None]

handle_command(self, io, command, args, cb) ==
    IF command \in DOMAIN self.commands
    THEN handle_validated(self.context, io, self.commands[command],
                          validate_arguments(command, self.commands[command].parameters, args),
                          cb)
    ELSE IF command = Str_help
    THEN handle_help(self.context, show_help(self, io, args))
    ELSE [res |-> Err(UnknownCommand(command)), context |-> self.context,
          io |-> io, validated |-> None]

\* args.drain(..1) and the call of handle_command; `args` are the tokens.
process_tokens_no_drain(self, io, args, cb) ==
    [handled |-> handle_command(self, io, args[1], args, cb), tokens |-> Some(args)]

process_tokens(self, io, args, cb) ==
    [handled |-> handle_command(self, io, args[1], Tail(args), cb), tokens |-> Some(args)]

process_trimmed_blank_unknown(self, io, trimmed, cb) ==
    IF trimmed # <<>>
    THEN process_tokens(self, io, tokenize(trimmed), cb)
    ELSE [handled |-> [res |-> Err(UnknownCommand(<<>>)), context |-> self.context,
                       io |-> io, validated |-> None],
          tokens |-> None]

process_trimmed(self, io, trimmed, cb) ==
    IF trimmed # <<>>
    THEN process_tokens(self, io, tokenize(trimmed), cb)
    ELSE [handled |-> [res |-> Ok(Unit), context |-> self.context, io |-> io,
                       validated |-> None],
          tokens |-> None]

process_line(self, io, line, cb) == process_trimmed(self, io, trim(line), cb)

default_error_handler_propagates(io, error) ==
    [res |-> Err(error), io |-> [io EXCEPT !.stderr = Append(@, Display(error))]]

default_error_handler(io, error) ==
    [res |-> Ok(Unit), io |-> [io EXCEPT !.stderr = Append(@, Display(error))]]

test_error_handler(io, error) ==
    [res |-> Err(error), io |-> io]

call_error_handler(handler, io, error) ==
    IF handler = "default_error_handler"
    THEN default_error_handler([io EXCEPT !.handled = Append(@, error)], error)
    ELSE test_error_handler([io EXCEPT !.handled = Append(@, error)], error)

\* What the line reader hands to handle_line.
Line(text) == [kind |-> "line", text |-> text]
Eof == [kind |-> "eof", text |-> <<>>]
ReadError == [kind |-> "error", text |-> <<>>]

\* The `?` on the value of the error handler: on Err handle_line returns
\* before it assigns `eof`.
handle_line_error_ignored(eof, processed, h) ==
    [res |-> Ok(Unit), eof |-> FALSE,
     context |-> processed.handled.context, io |-> h.io,
     validated |-> processed.handled.validated, tokens |-> processed.tokens]

handle_line_error(eof, processed, h) ==
    [res |-> h.res, eof |-> IF h.res.ok THEN FALSE ELSE eof,
     context |-> processed.handled.context, io |-> h.io,
     validated |-> processed.handled.validated, tokens |-> processed.tokens]

handle_line_processed_unhandled(self, eof, processed) ==
    [res |-> processed.handled.res, eof |-> eof, context |-> processed.handled.context,
     io |-> processed.handled.io, validated |-> processed.handled.validated,
     tokens |-> processed.tokens]

handle_line_processed(self, eof, processed) ==
    IF ~processed.handled.res.ok
    THEN handle_line_error(eof, processed,
                           call_error_handler(self.error_handler, processed.handled.io,
                                              unwrap(processed.handled.res.err)))
    ELSE [res |-> Ok(Unit), eof |-> FALSE, context |-> processed.handled.context,
          io |-> processed.handled.io, validated |-> processed.handled.validated,
          tokens |-> processed.tokens]

handle_line_eof_ignored(self, eof, input, cb) ==
    CASE input.kind = "line" ->
           handle_line_processed(self, eof, process_line(self, EmptyIo, input.text, cb))
      [] input.kind = "eof" ->
           [res |-> Ok(Unit), eof |-> eof, context |-> self.context, io |-> EmptyIo,
            validated |-> None, tokens |-> None]
      [] input.kind = "error" ->
           [res |-> Ok(Unit), eof |-> FALSE, context |-> self.context,
            io |-> [EmptyIo EXCEPT !.stderr =
                        Append(@, [kind |-> "read_error", strs |-> <<>>, n |-> 0])],
            validated |-> None, tokens |-> None]

handle_line_read_error_ends(self, eof, input, cb) ==
    CASE input.kind = "line" ->
           handle_line_processed(self, eof, process_line(self, EmptyIo, input.text, cb))
      [] input.kind = "eof" ->
           [res |-> Ok(Unit), eof |-> TRUE, context |-> self.context, io |-> EmptyIo,
            validated |-> None, tokens |-> None]
      [] input.kind = "error" ->
           [res |-> Ok(Unit), eof |-> TRUE, context |-> self.context,
            io |-> [EmptyIo EXCEPT !.stderr =
                        Append(@, [kind |-> "read_error", strs |-> <<>>, n |-> 0])],
            validated |-> None, tokens |-> None]

handle_line_read_error_handled(self, eof, input, cb) ==
    CASE input.kind = "line" ->
           handle_line_processed(self, eof, process_line(self, EmptyIo, input.text, cb))
      [] input.kind = "eof" ->
           [res |-> Ok(Unit), eof |-> TRUE, context |-> self.context, io |-> EmptyIo,
            validated |-> None, tokens |-> None]
      [] input.kind = "error" ->
           [res |-> call_error_handler(self.error_handler, EmptyIo,
                                       [kind |-> "read_error", strs |-> <<>>, n |-> 0]).res,
            eof |-> FALSE, context |-> self.context,
            io |-> call_error_handler(self.error_handler, EmptyIo,
                                      [kind |-> "read_error", strs |-> <<>>, n |-> 0]).io,
            validated |-> None, tokens |-> None]

handle_line(self, eof, input, cb) ==
    CASE input.kind = "line" ->
           handle_line_processed(self, eof, process_line(self, EmptyIo, input.text, cb))
      [] input.kind = "eof" ->
           [res |-> Ok(Unit), eof |-> TRUE, context |-> self.context, io |-> EmptyIo,
            validated |-> None, tokens |-> None]
      [] input.kind = "error" ->
           [res |-> Ok(Unit), eof |-> FALSE, context |-> self.context,
            io |-> [EmptyIo EXCEPT !.stderr =
                        Append(@, [kind |-> "read_error", strs |-> <<>>, n |-> 0])],
            validated |-> None, tokens |-> None]

\* ------------------------------------------------------------------------
\* The program: main builds parameters, commands and the Repl, then calls
\* run, which handles one input of the line reader after the other.
\* ------------------------------------------------------------------------
VARIABLES
    pc,          \* "build": in main; "run": at the call of handle_line in the loop
                 \* of run; "handled": handle_line has returned; "returned": run
                 \* has returned; "line": a line is about to be given to
                 \* process_line on its own; "processed": it has been
    op,          \* the operation that ran last
    parameter,   \* Option<Parameter>: the parameter main is building
    command,     \* Option<Command>: the command main is building
    dropped,     \* Option<Command>: `self` of a with_parameter call that returned Err,
                 \* or the command that add_command replaced in the table
    result,      \* Option<Result>: what the last fallible builder call returned
    nparams,     \* Parameter::new calls so far
    self,        \* the Repl
    eof,         \* the local `eof` of run
    input,       \* Option: what the line reader returned last
    tokens,      \* Option<Vec<String>>: the tokens process_line collected last
    validated,   \* Option<Result<HashMap>>: what validate_arguments returned last
    stdout,      \* what the last operation printed to stdout
    stderr,      \* what the last operation printed to stderr
    invoked,     \* the callback invocations of the last handle_line
    handled,     \* the errors the last handle_line passed to the error handler
    line_result, \* Option<Result<()>>: what the last handle_line returned
    run_result,  \* Option<Result<()>>: what run returned
    helper,      \* Option<Helper>: the helper run gave to the editor
    completion,  \* Option: the line and the value of the last Helper::complete
    reader,      \* Option: the lines the line reader will deliver before the end
                 \* of input and the position of the next one; None when the
                 \* reader's input is left open
    processed    \* history: what process_line collected for each line delivered
                 \* by a reader whose lines are given

vars == <<pc, op, parameter, command, dropped, result, nparams, self, eof,
          input, tokens, validated, stdout, stderr, invoked, handled, line_result,
          run_result, helper, completion, reader, processed>>

editor_vars == <<helper, completion, reader, processed>>

builder_vars == <<parameter, command, dropped, result, nparams>>
line_vars == <<eof, input, tokens, validated, stdout, stderr, invoked, handled,
               line_result, run_result, helper, completion, reader, processed>>

Outcome(r) == [ok |-> r.ok, err |-> r.err]

\* Input lines of the session: a first word and up to MaxArgs arguments
\* separated by one space, and blank lines.
QuotedAB == <<Quote, "a", " ", "b", Quote>>
FirstWords == {Str_f, Str_help, Str_x}
ArgWords == {Str_f, QuotedAB}
BlankLines == {<<>>, <<"\t", " ">>}

RECURSIVE join(_)
join(words) ==
    IF Len(words) = 0 THEN <<>>
    ELSE IF Len(words) = 1 THEN words[1]
    ELSE words[1] \o <<" ">> \o join(Tail(words))

ArgLists == UNION {[1..n -> ArgWords] : n \in 0..MaxArgs}
ReplLines == {join(<<w>> \o args) : w \in FirstWords, args \in ArgLists} \cup BlankLines
Inputs == {Line(l) : l \in ReplLines} \cup {Eof, ReadError}

Init ==
    /\ pc = "build"
    /\ op = "Repl::new"
    /\ parameter = None
    /\ command = None
    /\ dropped = None
    /\ result = None
    /\ nparams = 0
    /\ self \in {Repl_new(context) : context \in Contexts}
    /\ eof = FALSE
    /\ input = None
    /\ tokens = None
    /\ validated = None
    /\ stdout = <<>>
    /\ stderr = <<>>
    /\ invoked = <<>>
    /\ handled = <<>>
    /\ line_result = None
    /\ run_result = None
    /\ helper = None
    /\ completion = None
    /\ reader = None
    /\ processed = <<>>

ParameterNew ==
    /\ pc = "build"
    /\ nparams < MaxParameters
    /\ \E name \in ParameterNames : parameter' = Some(Parameter_new(name))
    /\ nparams' = nparams + 1
    /\ op' = "Parameter::new"
    /\ result' = None
    /\ dropped' = None
    /\ UNCHANGED <<pc, command, self>>
    /\ UNCHANGED line_vars

SetRequired ==
    /\ pc = "build"
    /\ is_some(parameter)
    /\ \E required \in BOOLEAN :
          \E r \in {set_required(unwrap(parameter), required)} :
             /\ parameter' = r.val
             /\ result' = Some(Outcome(r))
    /\ op' = "set_required"
    /\ dropped' = None
    /\ UNCHANGED <<pc, command, nparams, self>>
    /\ UNCHANGED line_vars

SetDefault ==
    /\ pc = "build"
    /\ is_some(parameter)
    /\ \E default \in Defaults :
          \E r \in {set_default(unwrap(parameter), default)} :
             /\ parameter' = r.val
             /\ result' = Some(Outcome(r))
    /\ op' = "set_default"
    /\ dropped' = None
    /\ UNCHANGED <<pc, command, nparams, self>>
    /\ UNCHANGED line_vars

CommandNew ==
    /\ pc = "build"
    /\ \E name \in CommandNames, callback \in Callbacks :
          command' = Some(Command_new(name, callback))
    /\ op' = "Command::new"
    /\ result' = None
    /\ dropped' = None
    /\ UNCHANGED <<pc, parameter, nparams, self>>
    /\ UNCHANGED line_vars

WithParameter ==
    /\ pc = "build"
    /\ is_some(command)
    /\ is_some(parameter)
    /\ \E wp \in {with_parameter(unwrap(command), unwrap(parameter))} :
          /\ command' = wp.res.val
          /\ dropped' = IF wp.res.ok THEN None ELSE Some(wp.self)
          /\ result' = Some(Outcome(wp.res))
    /\ parameter' = None
    /\ op' = "with_parameter"
    /\ UNCHANGED <<pc, nparams, self>>
    /\ UNCHANGED line_vars

WithErrorHandler ==
    /\ pc = "build"
    /\ \E handler \in ErrorHandlers : self' = with_error_handler(self, handler)
    /\ op' = "with_error_handler"
    /\ result' = None
    /\ dropped' = None
    /\ UNCHANGED <<pc, parameter, command, nparams>>
    /\ UNCHANGED line_vars

AddCommand ==
    /\ pc = "build"
    /\ is_some(command)
    /\ self' = add_command(self, unwrap(command))
    /\ command' = None
    /\ op' = "add_command"
    /\ result' = None
    /\ dropped' = insert_replaced(self, unwrap(command))
    /\ UNCHANGED <<pc, parameter, nparams>>
    /\ UNCHANGED line_vars

\* run up to the first test of its loop; the values main was still building
\* are out of reach from here on.
Run ==
    /\ pc = "build"
    /\ self' = construct_help_context(self)
    /\ stdout' = <<[kind |-> "welcome", strs |-> <<>>, n |-> 0]>>
    /\ eof' = FALSE
    /\ pc' = "run"
    /\ op' = "run"
    /\ parameter' = None
    /\ command' = None
    /\ dropped' = None
    /\ result' = None
    /\ nparams' = 0
    /\ \E keys \in KeyOrders(self) : helper' = Some(create_helper(self, keys))
    /\ completion' = None
    /\ UNCHANGED <<input, tokens, validated, stderr, invoked, handled, line_result,
                   run_result, reader, processed>>

\* The callback's behaviour is chosen only for an input that reaches the
\* callback.
NoCallback == [ret |-> "OkNone", context |-> "c0"]
InvokesCallback(in) ==
    /\ in.kind = "line"
    /\ process_line(self, EmptyIo, in.text, NoCallback).handled.io.invoked # <<>>
Behaviours(in) ==
    IF InvokesCallback(in) THEN CallbackBehaviours ELSE {NoCallback}

\* The call of handle_line in the loop of run.
HandleLine ==
    /\ pc = "run"
    /\ \E in \in Inputs :
          \E cb \in Behaviours(in) :
             \E h \in {handle_line(self, eof, in, cb)} :
                /\ input' = Some(in)
                /\ self' = [self EXCEPT !.context = h.context]
                /\ eof' = h.eof
                /\ tokens' = h.tokens
                /\ validated' = h.validated
                /\ stdout' = h.io.stdout
                /\ stderr' = h.io.stderr
                /\ invoked' = h.io.invoked
                /\ handled' = h.io.handled
                /\ line_result' = Some(h.res)
    /\ pc' = "handled"
    /\ op' = "handle_line"
    /\ UNCHANGED run_result
    /\ UNCHANGED builder_vars
    /\ UNCHANGED editor_vars

\* The `?` after handle_line and the test of `while !eof`; what the last
\* handle_line left to observe is gone when the next iteration starts.
LoopTest ==
    /\ pc = "handled"
    /\ IF ~unwrap(line_result).ok
       THEN /\ pc' = "returned"
            /\ run_result' = line_result
       ELSE IF eof
       THEN /\ pc' = "returned"
            /\ run_result' = Some(Ok(Unit))
       ELSE /\ pc' = "run"
            /\ run_result' = None
    /\ op' = "loop"
    /\ input' = None
    /\ tokens' = None
    /\ validated' = None
    /\ stdout' = <<>>
    /\ stderr' = <<>>
    /\ invoked' = <<>>
    /\ handled' = <<>>
    /\ line_result' = None
    /\ UNCHANGED <<self, eof>>
    /\ UNCHANGED builder_vars
    /\ UNCHANGED editor_vars

Next ==
    \/ ParameterNew
    \/ SetRequired
    \/ SetDefault
    \/ CommandNew
    \/ WithParameter
    \/ WithErrorHandler
    \/ AddCommand
    \/ Run
    \/ HandleLine
    \/ LoopTest

Spec == Init /\ [][Next]_vars

\* ------------------------------------------------------------------------
\* process_line on its own: every line of at most MaxLineLen characters
\* over LineAlphabet, given to the process_line of a Repl without commands.
\* ------------------------------------------------------------------------
LineAlphabet == {"a", " ", Quote, Newline}
AllLines == UNION {[1..n -> LineAlphabet] : n \in 0..MaxLineLen}

\* The Repls that are given the line: one without commands and one with a
\* command named a that takes two optional parameters, a and b.
LineCommandA ==
    with_parameter(with_parameter(Command_new(Str_a, "foo"), Parameter_new(Str_a)).self,
                   Parameter_new(Str_b)).self
LineRepls == {Repl_new("c0"), add_command(Repl_new("c0"), LineCommandA)}

InitLine ==
    /\ pc = "line"
    /\ op = "Repl::new"
    /\ parameter = None
    /\ command = None
    /\ dropped = None
    /\ result = None
    /\ nparams = 0
    /\ self \in LineRepls
    /\ eof = FALSE
    /\ input \in {Some(Line(l)) : l \in AllLines}
    /\ tokens = None
    /\ validated = None
    /\ stdout = <<>>
    /\ stderr = <<>>
    /\ invoked = <<>>
    /\ handled = <<>>
    /\ line_result = None
    /\ run_result = None
    /\ helper = None
    /\ completion = None
    /\ reader = None
    /\ processed = <<>>

ProcessLine ==
    /\ pc = "line"
    /\ \E p \in {process_line(self, EmptyIo, unwrap(input).text, NoCallback)} :
          /\ tokens' = p.tokens
          /\ validated' = p.handled.validated
          /\ stdout' = p.handled.io.stdout
          /\ stderr' = p.handled.io.stderr
          /\ invoked' = p.handled.io.invoked
          /\ handled' = p.handled.io.handled
          /\ line_result' = Some(p.handled.res)
          /\ self' = [self EXCEPT !.context = p.handled.context]
    /\ pc' = "processed"
    /\ op' = "process_line"
    /\ UNCHANGED <<eof, input, run_result>>
    /\ UNCHANGED builder_vars
    /\ UNCHANGED editor_vars

NextLine == ProcessLine

SpecLine == InitLine /\ [][NextLine]_vars

\* ------------------------------------------------------------------------
\* The command table: main registers commands it has built, with different
\* callbacks, parameters and help summaries, some under a name that is
\* registered already, and then calls run.
\* ------------------------------------------------------------------------
TableNames == {Str_f, Str_x}
TableCallbacks == {"foo", "bar"}
WithOptionalParameter(cmd) == with_parameter(cmd, Parameter_new(Str_a)).self
BuiltCommands ==
    UNION {{Command_new(n, cb),
            WithOptionalParameter(Command_new(n, cb)),
            with_help(Command_new(n, cb), <<"s">>),
            with_help(WithOptionalParameter(Command_new(n, cb)), <<"s">>)} :
           n \in TableNames, cb \in TableCallbacks}

BuildCommand ==
    /\ pc = "build"
    /\ \E cmd \in BuiltCommands : command' = Some(cmd)
    /\ op' = "build_command"
    /\ result' = None
    /\ dropped' = None
    /\ UNCHANGED <<pc, parameter, nparams, self>>
    /\ UNCHANGED line_vars

NextTable ==
    \/ BuildCommand
    \/ AddCommand
    \/ Run
    \/ HandleLine
    \/ LoopTest

SpecTable == Init /\ [][NextTable]_vars

\* ------------------------------------------------------------------------
\* Completion: main switches completion on or off and registers commands,
\* run gives the editor its helper, and the editor asks the helper to
\* complete the line typed so far.
\* ------------------------------------------------------------------------
CompletionNames == {Str_f, Str_help, Str_x}
PartialLines ==
    {<<>>, Str_f, Str_x, Str_help, <<"h", "e">>, <<"e", "l">>, <<"l", "p">>, <<"h", "p">>,
     <<"f", " ">>, <<"h", "e", "l", "p", " ">>}

UseCompletion ==
    /\ pc = "build"
    /\ \E value \in BOOLEAN : self' = use_completion(self, value)
    /\ op' = "use_completion"
    /\ result' = None
    /\ dropped' = None
    /\ UNCHANGED <<pc, parameter, command, nparams>>
    /\ UNCHANGED line_vars

RegisterCommand ==
    /\ pc = "build"
    /\ \E name \in CompletionNames :
          /\ self' = add_command(self, Command_new(name, "foo"))
          /\ dropped' = insert_replaced(self, Command_new(name, "foo"))
    /\ op' = "add_command"
    /\ result' = None
    /\ UNCHANGED <<pc, parameter, command, nparams>>
    /\ UNCHANGED line_vars

Complete ==
    /\ pc = "run"
    /\ \E line \in PartialLines :
          completion' = Some([line |-> line, value |-> complete(unwrap(helper), line)])
    /\ op' = "complete"
    /\ UNCHANGED <<pc, self, eof, input, tokens, validated, stdout, stderr, invoked, handled,
                   line_result, run_result, helper, reader, processed>>
    /\ UNCHANGED builder_vars

NextComplete ==
    \/ UseCompletion
    \/ RegisterCommand
    \/ Run
    \/ Complete

SpecComplete == Init /\ [][NextComplete]_vars

\* ------------------------------------------------------------------------
\* The session of the example: the command f with the callback `add` and
\* two required parameters, and lines whose arguments are or are not
\* integers.
\* ------------------------------------------------------------------------
RequiredParameter(name) == unwrap(set_required(Parameter_new(name), TRUE).val)
CommandAdd ==
    with_parameter(with_parameter(Command_new(Str_f, "add"), RequiredParameter(Str_a)).self,
                   RequiredParameter(Str_b)).self
ConvertRepls ==
    {construct_help_context(add_command(with_error_handler(Repl_new("c0"), handler),
                                        CommandAdd)) : handler \in ErrorHandlers}

NumberWords == {<<"1">>, <<"-", "2">>, <<"f">>,
                <<"9", "9", "9", "9", "9", "9", "9", "9", "9", "9">>}
ConvertInputs ==
    {Line(join(<<Str_f>> \o args)) :
        args \in UNION {[1..n -> NumberWords] : n \in 0..MaxArgs}} \cup {Eof}

InitConvert ==
    /\ pc = "run"
    /\ op = "run"
    /\ parameter = None
    /\ command = None
    /\ dropped = None
    /\ result = None
    /\ nparams = 0
    /\ self \in ConvertRepls
    /\ eof = FALSE
    /\ input = None
    /\ tokens = None
    /\ validated = None
    /\ stdout = <<[kind |-> "welcome", strs |-> <<>>, n |-> 0]>>
    /\ stderr = <<>>
    /\ invoked = <<>>
    /\ handled = <<>>
    /\ line_result = None
    /\ run_result = None
    /\ helper \in {Some(create_helper(self, keys)) : keys \in KeyOrders(self)}
    /\ completion = None
    /\ reader = None
    /\ processed = <<>>

ConvertLine ==
    /\ pc = "run"
    /\ \E in \in ConvertInputs :
          \E h \in {handle_line(self, eof, in, NoCallback)} :
             /\ input' = Some(in)
             /\ self' = [self EXCEPT !.context = h.context]
             /\ eof' = h.eof
             /\ tokens' = h.tokens
             /\ validated' = h.validated
             /\ stdout' = h.io.stdout
             /\ stderr' = h.io.stderr
             /\ invoked' = h.io.invoked
             /\ handled' = h.io.handled
             /\ line_result' = Some(h.res)
    /\ pc' = "handled"
    /\ op' = "handle_line"
    /\ UNCHANGED run_result
    /\ UNCHANGED builder_vars
    /\ UNCHANGED editor_vars

NextConvert ==
    \/ ConvertLine
    \/ LoopTest

SpecConvert == InitConvert /\ [][NextConvert]_vars

\* ------------------------------------------------------------------------
\* run on a line reader that delivers at most MaxLines lines and then the
\* end of input. The command f has one parameter that is not required; the
\* callback's behaviour is chosen at each invocation, and it returns.
\* ------------------------------------------------------------------------
CommandF == with_parameter(Command_new(Str_f, "foo"), Parameter_new(Str_a)).self
RunRepls ==
    {construct_help_context(add_command(with_error_handler(Repl_new("c0"), handler),
                                        CommandF)) : handler \in ErrorHandlers}

Deliveries ==
    UNION {[1..n -> {Str_f, Str_x, join(<<Str_f, Str_f>>), <<" ">>}] : n \in 0..MaxLines}

\* editor.readline on that reader
readline(rd) ==
    IF rd.pos > Len(rd.lines) THEN Eof ELSE Line(rd.lines[rd.pos])

InitRun ==
    /\ pc = "run"
    /\ op = "run"
    /\ parameter = None
    /\ command = None
    /\ dropped = None
    /\ result = None
    /\ nparams = 0
    /\ self \in RunRepls
    /\ eof = FALSE
    /\ input = None
    /\ tokens = None
    /\ validated = None
    /\ stdout = <<[kind |-> "welcome", strs |-> <<>>, n |-> 0]>>
    /\ stderr = <<>>
    /\ invoked = <<>>
    /\ handled = <<>>
    /\ line_result = None
    /\ run_result = None
    /\ helper \in {Some(create_helper(self, keys)) : keys \in KeyOrders(self)}
    /\ completion = None
    /\ reader \in {Some([lines |-> lines, pos |-> 1]) : lines \in Deliveries}
    /\ processed = <<>>

ReadLine ==
    /\ pc = "run"
    /\ is_some(reader)
    /\ \E in \in {readline(unwrap(reader))} :
          \E cb \in Behaviours(in) :
             \E h \in {handle_line(self, eof, in, cb)} :
                /\ input' = Some(in)
                /\ self' = [self EXCEPT !.context = h.context]
                /\ eof' = h.eof
                /\ tokens' = h.tokens
                /\ validated' = h.validated
                /\ stdout' = h.io.stdout
                /\ stderr' = h.io.stderr
                /\ invoked' = h.io.invoked
                /\ handled' = h.io.handled
                /\ line_result' = Some(h.res)
                /\ processed' = IF in.kind = "line" THEN Append(processed, h.tokens)
                                 ELSE processed
    /\ reader' = IF unwrap(reader).pos > Len(unwrap(reader).lines) THEN reader
                  ELSE Some([unwrap(reader) EXCEPT !.pos = @ + 1])
    /\ pc' = "handled"
    /\ op' = "handle_line"
    /\ UNCHANGED <<run_result, helper, completion>>
    /\ UNCHANGED builder_vars

NextRun ==
    \/ ReadLine
    \/ LoopTest

\* run is sequential code: while it has not returned, its next step (the
\* call of handle_line, which returns, or the loop test) is taken. Every
\* step of NextRun changes pc and one is possible exactly at "run" and at
\* "handled", so the condition is WF_vars(NextRun) with its ENABLED written
\* out on pc.
RunStep ==
    /\ pc \in {"run", "handled"}
    /\ pc' \in {"run", "handled", "returned"}

SpecRun == InitRun /\ [][NextRun]_vars /\ WF_pc(RunStep)

\* ------------------------------------------------------------------------
\* Properties of the builders
\* ------------------------------------------------------------------------
HasOptional(cmd) == \E i \in 1..Len(cmd.parameters) : ~cmd.parameters[i].required

\* C1: once a command holds a non-required parameter, a with_parameter call
\* with a required parameter returns Err(IllegalRequiredError) carrying the
\* name of the parameter passed in, and the command's parameter list is at
\* the return of the call what it was before the call.
C1_RequiredAfterOptionalRejected ==
    [][(/\ op' = "with_parameter"
        /\ is_some(command)
        /\ is_some(parameter)
        /\ unwrap(parameter).required
        /\ HasOptional(unwrap(command)))
       => (/\ result' = Some(Outcome(Err(IllegalRequiredError(unwrap(parameter).name))))
           /\ command' = None
           /\ is_some(dropped')
           /\ unwrap(dropped').parameters = unwrap(command).parameters)]_vars

C1_Witness ==
    /\ op = "with_parameter"
    /\ is_some(result)
    /\ ~unwrap(result).ok
    /\ unwrap(unwrap(result).err).kind = "IllegalRequiredError"
    /\ is_some(dropped)
    /\ Len(unwrap(dropped).parameters) >= 1
    /\ HasOptional(unwrap(dropped))

NotRequiredWithDefault(p) == ~(p.required /\ is_some(p.default))

AllParametersOf(cmds) ==
    UNION {Range(cmds[k].parameters) : k \in DOMAIN cmds}

\* C2: no parameter, whether still being built, held by the command being
\* built or held by a registered command, is required and has a default; a
\* set_default call on a required parameter returns
\* Err(IllegalDefaultError) carrying the parameter's name.
C2_NeverRequiredWithDefault ==
    [][/\ \A p \in Range(parameter') : NotRequiredWithDefault(p)
       /\ \A c \in Range(command') : \A p \in Range(c.parameters) : NotRequiredWithDefault(p)
       /\ \A p \in AllParametersOf(self'.commands) : NotRequiredWithDefault(p)
       /\ (op' = "set_default" /\ is_some(parameter) /\ unwrap(parameter).required)
          => (/\ result' = Some(Outcome(Err(IllegalDefaultError(unwrap(parameter).name))))
              /\ parameter' = None)
       /\ (op' = "set_required" /\ is_some(parameter) /\ is_some(unwrap(parameter).default))
          => (/\ is_some(result')
              /\ ~unwrap(result').ok
              /\ parameter' = None)]_vars

C2_Witness ==
    /\ op = "set_default"
    /\ result = Some(Outcome(Err(IllegalDefaultError(Str_a))))
    /\ parameter = None

\* ------------------------------------------------------------------------
\* Properties of the binder
\* ------------------------------------------------------------------------
\* handle_line has returned from a line whose first token names a
\* registered command: validate_arguments ran on the rest of the tokens.
BinderRan ==
    /\ pc = "handled"
    /\ is_some(tokens)
    /\ unwrap(tokens)[1] \in DOMAIN self.commands

LineCommand == unwrap(tokens)[1]
LineArgs == Tail(unwrap(tokens))
LineParameters == self.commands[LineCommand].parameters
BinderError(kind) ==
    /\ is_some(validated)
    /\ ~unwrap(validated).ok
    /\ unwrap(unwrap(validated).err).kind = kind

\* C3: for a registered command the binder returns TooManyArguments exactly
\* when there are more argument tokens than parameters; the error carries
\* the command name and the number of parameters, no map is produced and
\* the callback is not invoked.
C3_TooManyArgumentsIff ==
    BinderRan =>
        /\ is_some(validated)
        /\ BinderError("TooManyArguments") <=> Len(LineArgs) > Len(LineParameters)
        /\ Len(LineArgs) > Len(LineParameters) =>
              /\ unwrap(validated) = Err(TooManyArguments(LineCommand, Len(LineParameters)))
              /\ unwrap(validated).val = None
              /\ invoked = <<>>

C3_Witness ==
    /\ BinderRan
    /\ Len(LineParameters) = 2
    /\ Len(LineArgs) = 3
    /\ BinderError("TooManyArguments")

MissingRequired ==
    {i \in (Len(LineArgs) + 1)..Len(LineParameters) : LineParameters[i].required}

\* C4: with no more argument tokens than parameters, the binder returns
\* MissingRequiredArgument exactly when a required parameter has no token,
\* and the error names the command and the first such parameter.
C4_MissingRequiredIff ==
    (BinderRan /\ Len(LineArgs) <= Len(LineParameters)) =>
        /\ is_some(validated)
        /\ BinderError("MissingRequiredArgument") <=> MissingRequired # {}
        /\ MissingRequired # {} =>
              unwrap(validated) =
                  Err(MissingRequiredArgument(
                          LineCommand,
                          LineParameters[CHOOSE i \in MissingRequired :
                                            \A j \in MissingRequired : i <= j].name))

C4_Witness ==
    /\ BinderRan
    /\ Len(LineArgs) = 0
    /\ Cardinality(MissingRequired) = 2
    /\ LineParameters[1].name # LineParameters[2].name
    /\ unwrap(validated) = Err(MissingRequiredArgument(LineCommand, LineParameters[1].name))

\* C5: when binding succeeds, every argument token is bound, as given, to
\* the name of the parameter at its position.
C5_PositionalBinding ==
    (BinderRan /\ is_some(validated) /\ unwrap(validated).ok) =>
        \A i \in 1..Len(LineArgs) :
            /\ LineParameters[i].name \in DOMAIN unwrap(unwrap(validated).val)
            /\ unwrap(unwrap(validated).val)[LineParameters[i].name] = Value_new(LineArgs[i])

\* C6: when binding succeeds, every non-required parameter without a token
\* is bound to its default when it has one and is no key of the map when it
\* has none, and every key of the map is the name of a parameter.
C6_DefaultsAndAbsent ==
    (BinderRan /\ is_some(validated) /\ unwrap(validated).ok) =>
        /\ \A i \in (Len(LineArgs) + 1)..Len(LineParameters) :
              ~LineParameters[i].required =>
                 IF is_some(LineParameters[i].default)
                 THEN /\ LineParameters[i].name \in DOMAIN unwrap(unwrap(validated).val)
                      /\ unwrap(unwrap(validated).val)[LineParameters[i].name]
                            = Value_new(unwrap(LineParameters[i].default))
                 ELSE LineParameters[i].name \notin DOMAIN unwrap(unwrap(validated).val)
        /\ DOMAIN unwrap(unwrap(validated).val)
              \subseteq {LineParameters[i].name : i \in 1..Len(LineParameters)}

\* ------------------------------------------------------------------------
\* Properties of dispatch
\* ------------------------------------------------------------------------
UnknownLine ==
    /\ pc = "handled"
    /\ is_some(tokens)
    /\ LineCommand \notin DOMAIN self.commands
    /\ LineCommand # Str_help

\* C8: a line whose first token is neither a registered command nor `help`
\* yields UnknownCommand with exactly that token, the error handler is called
\* with it (once, with nothing else), and no callback runs.
C8_UnknownCommandHandled ==
    UnknownLine =>
        /\ handled = <<UnknownCommand(LineCommand)>>
        /\ invoked = <<>>
        /\ validated = None
        /\ self.error_handler = "default_error_handler" =>
              /\ stderr = <<Display(UnknownCommand(LineCommand))>>
              /\ line_result = Some(Ok(Unit))
        /\ self.error_handler = "test_error_handler" =>
              line_result = Some(Err(UnknownCommand(LineCommand)))

C8_Witness ==
    /\ UnknownLine
    /\ LineCommand = Str_f
    /\ Len(LineArgs) = 2
    /\ Str_help \in DOMAIN self.commands
    /\ handled = <<UnknownCommand(Str_f)>>

BlankInput(in) == in.kind = "line" /\ trim(in.text) = <<>>

\* C9: handle_line on an empty or whitespace-only line looks up no command,
\* invokes no callback and no error handler, prints nothing, leaves the Repl
\* and its context as they were and returns Ok; the loop then waits for the
\* next line.
C9_BlankLineNoOp ==
    [][/\ (pc = "run" /\ pc' = "handled" /\ BlankInput(unwrap(input'))) =>
             /\ tokens' = None
             /\ validated' = None
             /\ invoked' = <<>>
             /\ handled' = <<>>
             /\ stdout' = <<>>
             /\ stderr' = <<>>
             /\ self' = self
             /\ eof' = FALSE
             /\ line_result' = Some(Ok(Unit))
       /\ (pc = "handled" /\ pc' # "handled" /\ BlankInput(unwrap(input))) =>
             /\ pc' = "run"
             /\ run_result' = None
             /\ self' = self]_vars

C9_Witness ==
    /\ pc = "handled"
    /\ input = Some(Line(<<"\t", " ">>))
    /\ tokens = None
    /\ handled = <<>>
    /\ DOMAIN self.commands = CommandNames
    /\ self.error_handler = "test_error_handler"

\* ------------------------------------------------------------------------
\* Properties of the tokenizer
\* ------------------------------------------------------------------------
\* The quoted runs of a line, pairing its double quotes from left to right:
\* <<i, j>> with an opening quote at i and the next quote at j.
QuotesBefore(s, i) == Cardinality({k \in 1..(i - 1) : s[k] = Quote})
QuotesAfter(s, i) == {k \in (i + 1)..Len(s) : s[k] = Quote}
QuotedRuns(s) ==
    {r \in (1..Len(s)) \X (1..Len(s)) :
        /\ s[r[1]] = Quote
        /\ QuotesBefore(s, r[1]) % 2 = 0
        /\ r[2] \in QuotesAfter(s, r[1])
        /\ \A k \in QuotesAfter(s, r[1]) : r[2] <= k}
Body(s, r) == SubSeq(s, r[1] + 1, r[2] - 1)

\* The run is one token with the quotes removed, between the tokens of what
\* precedes it and the tokens of what follows it.
OneToken(s, r) ==
    tokens = Some(tokenize(trim(SubSeq(s, 1, r[1] - 1)))
                  \o <<Body(s, r)>>
                  \o tokenize(trim(SubSeq(s, r[2] + 1, Len(s)))))

\* The run is not empty, holds no line break, and its opening quote is at the
\* start of the line or directly after whitespace.
Delimited(s, r) ==
    /\ Body(s, r) # <<>>
    /\ Newline \notin Range(Body(s, r))
    /\ r[1] = 1 \/ s[r[1] - 1] \in Whitespace
DelimitedUpTo(s, r) ==
    \A q \in QuotedRuns(s) : q[1] <= r[1] => Delimited(s, q)

\* C10 as stated: on a line without line breaks, every run of characters
\* enclosed in a pair of double quotes is exactly one token with the quotes
\* removed, wherever it occurs.
C10_EveryQuotedRunOneToken ==
    (pc = "processed" /\ Newline \notin Range(unwrap(input).text)) =>
        \A r \in QuotedRuns(unwrap(input).text) :
            Body(unwrap(input).text, r) # <<>> => OneToken(unwrap(input).text, r)

\* C10 as amended: a quoted run is exactly one token with the quotes removed
\* when it and every quoted run before it on the line is not empty, holds no
\* line break and opens at the start of the line or directly after
\* whitespace.
C10_DelimitedQuotedRunOneToken ==
    pc = "processed" =>
        \A r \in QuotedRuns(unwrap(input).text) :
            DelimitedUpTo(unwrap(input).text, r) => OneToken(unwrap(input).text, r)

C10_Witness ==
    /\ pc = "processed"
    /\ unwrap(input).text = <<"a", " ", Quote, "a", " ", Quote, " ", "a">>
    /\ DelimitedUpTo(unwrap(input).text, <<3, 6>>)
    /\ <<3, 6>> \in QuotedRuns(unwrap(input).text)
    /\ tokens = Some(<<Str_a, <<"a", " ">>, Str_a>>)

\* The maximal whitespace-free runs of a line, from left to right.
RunStarts(s) ==
    {i \in 1..Len(s) : s[i] \notin Whitespace /\ (i = 1 \/ s[i - 1] \in Whitespace)}
RunEnd(s, i) ==
    CHOOSE j \in i..Len(s) :
        /\ \A k \in i..j : s[k] \notin Whitespace
        /\ j = Len(s) \/ s[j + 1] \in Whitespace
RunAt(s, n) ==
    CHOOSE i \in RunStarts(s) : Cardinality({k \in RunStarts(s) : k < i}) = n - 1
Runs(s) ==
    [n \in 1..Cardinality(RunStarts(s)) |-> SubSeq(s, RunAt(s, n), RunEnd(s, RunAt(s, n)))]

\* What handle_command does with a command name and positional arguments.
Dispatched(name, args) ==
    IF name \in DOMAIN self.commands
    THEN /\ validated = Some(validate_arguments(name, self.commands[name].parameters, args))
         /\ unwrap(validated).ok =>
               /\ Len(invoked) = 1
               /\ invoked[1].command = name
               /\ invoked[1].args = unwrap(unwrap(validated).val)
    ELSE /\ validated = None
         /\ invoked = <<>>
         /\ line_result = Some(Err(UnknownCommand(name)))

\* C11: for a line without quotes the tokens are its maximal whitespace-free
\* runs from left to right; the first is the command name that is looked up
\* and the others are the positional arguments, in the same order.
C11_UnquotedLineRuns ==
    (/\ pc = "processed"
     /\ Quote \notin Range(unwrap(input).text)
     /\ Runs(unwrap(input).text) # <<>>) =>
        /\ tokens = Some(Runs(unwrap(input).text))
        /\ Dispatched(Head(Runs(unwrap(input).text)), Tail(Runs(unwrap(input).text)))

C11_Witness ==
    /\ pc = "processed"
    /\ unwrap(input).text = <<"a", " ", "a", "a", "\n", " ", "a">>
    /\ tokens = Some(<<Str_a, <<"a", "a">>, Str_a>>)
    /\ Len(invoked) = 1
    /\ invoked[1].args = (Str_a :> Value_new(<<"a", "a">>)) @@ (Str_b :> Value_new(Str_a))

\* C12: a line whose first token is `help` never invokes a callback, also
\* when a command named help has been registered: help rendering handles it.
C12_HelpNeverShadowed ==
    (pc = "handled" /\ is_some(tokens) /\ LineCommand = Str_help) =>
        /\ invoked = <<>>
        /\ validated = None

HelpIndexNames ==
    {unwrap(self.help_context).help_entries[i].command :
        i \in 1..Len(unwrap(self.help_context).help_entries)}

\* C13: `help X`, X no command of the help index, writes a notice to the
\* error sink and does not call the error handler; the line ends with Ok and
\* the loop continues, whatever the configured error handler.
C13_HelpUnknownTopicNotice ==
    (/\ pc = "handled"
     /\ is_some(tokens)
     /\ LineCommand = Str_help
     /\ LineArgs # <<>>
     /\ LineArgs[1] \notin HelpIndexNames) =>
        /\ handled = <<>>
        /\ stderr = <<[kind |-> "help_not_found", strs |-> <<LineArgs[1]>>, n |-> 0]>>
        /\ stdout = <<>>
        /\ invoked = <<>>
        /\ line_result = Some(Ok(Unit))
        /\ ~eof

\* C14: after the callback has returned, Ok(Some(text)) has written exactly
\* that text once to the output sink and the error handler is not called;
\* Ok(None) has written nothing and the error handler is not called; Err(e)
\* has written nothing to the output sink and e is passed to the error
\* handler.
C14_CallbackResultHandling ==
    (pc = "handled" /\ invoked # <<>>) =>
        /\ Len(invoked) = 1
        /\ invoked[1].ret = "OkSome" =>
              /\ stdout = <<Text(CallbackText)>>
              /\ handled = <<>>
              /\ stderr = <<>>
        /\ invoked[1].ret = "OkNone" =>
              /\ stdout = <<>>
              /\ handled = <<>>
              /\ stderr = <<>>
        /\ invoked[1].ret = "Err" =>
              /\ stdout = <<>>
              /\ handled = <<CallbackError>>

C14_Witness ==
    /\ pc = "handled"
    /\ Len(invoked) = 1
    /\ invoked[1].ret = "Err"
    /\ invoked[1].args # EmptyMap
    /\ handled = <<CallbackError>>
    /\ stdout = <<>>

\* ------------------------------------------------------------------------
\* Properties of the loop of run
\* ------------------------------------------------------------------------
\* What the configured error handler returned for the error it was given.
HandlerReturn == call_error_handler(self.error_handler, EmptyIo, handled[1]).res

\* C15: after a line for which the error handler was called, the loop waits
\* for the next line when the handler returned success, and run returns at
\* once with the handler's error when it returned one; run returns an error
\* in no other way, and nothing is read after run has returned.
C15_ErrorHandlerDecides ==
    [][/\ pc # "returned"
       /\ (pc = "handled" /\ handled # <<>> /\ HandlerReturn.ok) =>
             (pc' = "run" /\ run_result' = None)
       /\ (pc = "handled" /\ handled # <<>> /\ ~HandlerReturn.ok) =>
             (pc' = "returned" /\ run_result' = Some(HandlerReturn))
       /\ (pc' = "returned" /\ ~unwrap(run_result').ok) =>
             (pc = "handled" /\ handled # <<>> /\ run_result' = Some(HandlerReturn))]_vars

C15_Witness ==
    /\ pc = "returned"
    /\ op = "loop"
    /\ self.error_handler = "test_error_handler"
    /\ run_result = Some(Err(CallbackError))
    /\ DOMAIN self.commands = CommandNames

\* C16: when the line reader reports end of input, run returns Ok; and run
\* returns Ok only from there: after no line, callback result or read error.
C16_EndOfInputTerminates ==
    [][/\ (pc = "run" /\ pc' = "handled" /\ input' = Some(Eof)) =>
             /\ eof'
             /\ line_result' = Some(Ok(Unit))
             /\ handled' = <<>>
             /\ invoked' = <<>>
       /\ (pc = "handled" /\ pc' # "handled" /\ input = Some(Eof)) =>
             /\ pc' = "returned"
             /\ run_result' = Some(Ok(Unit))
       /\ (pc' = "returned" /\ unwrap(run_result').ok) =>
             /\ pc = "handled"
             /\ input = Some(Eof)]_vars

C16_Witness ==
    /\ pc = "returned"
    /\ op = "loop"
    /\ eof
    /\ run_result = Some(Ok(Unit))
    /\ self.error_handler = "test_error_handler"

\* C17: a read error other than end of input is reported to the error sink
\* and not passed to the error handler; run does not return, the loop waits
\* for the next line and the context is as it was.
C17_ReadErrorReported ==
    [][/\ (pc = "run" /\ pc' = "handled" /\ input' = Some(ReadError)) =>
             /\ stderr' = <<[kind |-> "read_error", strs |-> <<>>, n |-> 0]>>
             /\ stdout' = <<>>
             /\ handled' = <<>>
             /\ invoked' = <<>>
             /\ line_result' = Some(Ok(Unit))
             /\ ~eof'
             /\ self' = self
       /\ (pc = "handled" /\ pc' # "handled" /\ input = Some(ReadError)) =>
             /\ pc' = "run"
             /\ run_result' = None
             /\ self' = self]_vars

C17_Witness ==
    /\ pc = "handled"
    /\ input = Some(ReadError)
    /\ stderr = <<[kind |-> "read_error", strs |-> <<>>, n |-> 0]>>
    /\ handled = <<>>
    /\ self.error_handler = "test_error_handler"
    /\ self.context = "c1"

\* C18: every dispatch-time error of a line (UnknownCommand,
\* TooManyArguments, MissingRequiredArgument, an error returned by the
\* callback) is passed to the configured error handler, in exactly one call
\* for that line.
C18_DispatchErrorsHandledOnce ==
    (pc = "handled" /\ is_some(tokens)) =>
        /\ Len(handled) <= 1
        /\ UnknownLine => handled = <<UnknownCommand(LineCommand)>>
        /\ BinderError("TooManyArguments") =>
              handled = <<TooManyArguments(LineCommand, Len(LineParameters))>>
        /\ BinderError("MissingRequiredArgument") =>
              /\ Len(handled) = 1
              /\ handled[1].kind = "MissingRequiredArgument"
              /\ handled = <<unwrap(unwrap(validated).err)>>
        /\ (invoked # <<>> /\ invoked[1].ret = "Err") => handled = <<CallbackError>>

C18_Witness ==
    /\ pc = "handled"
    /\ BinderError("MissingRequiredArgument")
    /\ handled = <<MissingRequiredArgument(Str_f, Str_b)>>
    /\ Len(LineArgs) = 1
    /\ self.error_handler = "default_error_handler"

\* C19: with the default error handler every dispatch error is logged to the
\* error sink and the loop goes on, and run returns only Ok and only after
\* end of input.
C19_DefaultHandlerNeverFails ==
    [][self.error_handler = "default_error_handler" =>
          /\ (pc = "handled" /\ handled # <<>>) =>
                /\ stderr = <<Display(handled[1])>>
                /\ line_result = Some(Ok(Unit))
                /\ pc' = "run"
          /\ pc' = "returned" =>
                /\ run_result' = Some(Ok(Unit))
                /\ input = Some(Eof)]_vars

C19_Witness ==
    /\ pc = "handled"
    /\ self.error_handler = "default_error_handler"
    /\ handled = <<CallbackError>>
    /\ stderr = <<Display(CallbackError)>>
    /\ line_result = Some(Ok(Unit))
    /\ ~eof

\* ------------------------------------------------------------------------
\* Properties of the command table
\* ------------------------------------------------------------------------
\* C20: the table holds one command per name; add_command puts the command
\* under its name in place of an earlier one of that name and leaves the
\* other names alone, and dispatch and help use the command the table holds:
\* its parameters, its callback and its help summary.
C20_LatestRegistrationWins ==
    [][/\ \A k \in DOMAIN self.commands : self.commands[k].name = k
       /\ (pc = "build" /\ op' = "add_command") =>
             /\ DOMAIN self'.commands = DOMAIN self.commands \cup {unwrap(command).name}
             /\ self'.commands[unwrap(command).name] = unwrap(command)
             /\ \A k \in DOMAIN self.commands \ {unwrap(command).name} :
                   self'.commands[k] = self.commands[k]
       /\ BinderRan =>
             /\ validated = Some(validate_arguments(LineCommand, LineParameters, LineArgs))
             /\ invoked # <<>> => invoked[1].callback = self.commands[LineCommand].callback
       /\ (/\ pc = "handled"
           /\ is_some(tokens)
           /\ LineCommand = Str_help
           /\ Str_help \notin DOMAIN self.commands
           /\ LineArgs # <<>>
           /\ LineArgs[1] \in DOMAIN self.commands) =>
             stdout = help_command(<<>>, HelpEntry_new(LineArgs[1],
                                                       self.commands[LineArgs[1]].parameters,
                                                       self.commands[LineArgs[1]].help_summary))]_vars

C20_Witness ==
    /\ op = "add_command"
    /\ is_some(dropped)
    /\ unwrap(dropped).name = Str_f
    /\ self.commands[Str_f].callback # unwrap(dropped).callback
    /\ self.commands[Str_f].parameters # unwrap(dropped).parameters
    /\ self.commands[Str_f].help_summary # unwrap(dropped).help_summary
    /\ Str_x \in DOMAIN self.commands

\* ------------------------------------------------------------------------
\* Properties of help
\* ------------------------------------------------------------------------
HelpEntries == unwrap(self.help_context).help_entries

\* C21: there is no help index before run; run builds it before the first
\* line is read, with exactly one entry per command of the table, in
\* ascending order of the command names; no line changes it, and general
\* help lists the entries in the order of the index.
C21_HelpIndexSortedAndFixed ==
    [][/\ pc = "build" => self.help_context = None
       /\ pc \in {"run", "handled"} =>
             /\ is_some(self.help_context)
             /\ self'.help_context = self.help_context
             /\ Len(HelpEntries) = Cardinality(DOMAIN self.commands)
             /\ \A k \in DOMAIN self.commands :
                   \E i \in 1..Len(HelpEntries) :
                      HelpEntries[i] = HelpEntry_new(k, self.commands[k].parameters,
                                                     self.commands[k].help_summary)
             /\ \A i, j \in 1..Len(HelpEntries) :
                   i < j => /\ HelpEntries[i].command # HelpEntries[j].command
                            /\ str_le(HelpEntries[i].command, HelpEntries[j].command)
       /\ (/\ pc = "handled"
           /\ is_some(tokens)
           /\ LineCommand = Str_help
           /\ Str_help \notin DOMAIN self.commands
           /\ LineArgs = <<>>) =>
             /\ Len(stdout) = 2 + Len(HelpEntries)
             /\ \A i \in 1..Len(HelpEntries) :
                   stdout[2 + i] = Text(entry_line(HelpEntries[i]))]_vars

C21_Witness ==
    /\ pc = "handled"
    /\ tokens = Some(<<Str_help>>)
    /\ Len(HelpEntries) = 2
    /\ HelpEntries[1].command = Str_f
    /\ HelpEntries[2].command = Str_x
    /\ Len(stdout) = 4
    /\ stdout[3] = Text(<<"f", " ", "-", " ", "s">>)
    /\ stdout[4] = Text(Str_x)

\* The usage text of the first n declared parameters of a command.
RECURSIVE UsageText(_, _)
UsageText(parameters, n) ==
    IF n = 0 THEN <<>>
    ELSE UsageText(parameters, n - 1)
         \o (IF parameters[n].required
             THEN <<" ">> \o parameters[n].name
             ELSE <<" ", "[">> \o parameters[n].name \o <<"]">>)

HelpTopicLine ==
    /\ pc = "handled"
    /\ is_some(tokens)
    /\ LineCommand = Str_help
    /\ Str_help \notin DOMAIN self.commands
    /\ LineArgs # <<>>
    /\ LineArgs[1] \in DOMAIN self.commands

\* C22: help for an existing command ends with a usage line: the command
\* name followed by every parameter in declaration order, ` name` for a
\* required and ` [name]` for a non-required parameter.
C22_UsageLine ==
    HelpTopicLine =>
        /\ stdout # <<>>
        /\ stdout[Len(stdout)] =
              Text(<<"\t">> \o LineArgs[1]
                   \o UsageText(self.commands[LineArgs[1]].parameters,
                                Len(self.commands[LineArgs[1]].parameters)))
        /\ stdout[Len(stdout) - 1] = Text(<<"U", "s", "a", "g", "e", ":">>)
        /\ handled = <<>>
        /\ stderr = <<>>

C22_Witness ==
    /\ HelpTopicLine
    /\ LineArgs[1] = Str_f
    /\ Len(self.commands[Str_f].parameters) = 2
    /\ self.commands[Str_f].parameters[1].required
    /\ ~self.commands[Str_f].parameters[2].required
    /\ stdout[Len(stdout)] = Text(<<"\t", "f", " ", "a", " ", "[", "b", "]">>)

\* ------------------------------------------------------------------------
\* Properties of completion
\* ------------------------------------------------------------------------
\* `line` occurs in `name` as a run of consecutive characters.
IsSubstring(line, name) ==
    \E before, after \in 0..Len(name) :
        /\ before + Len(line) + after = Len(name)
        /\ \A k \in 1..Len(line) : name[before + k] = line[k]

\* C23: with completion enabled the candidates for an input are exactly the
\* registered command names that contain the input as a substring, each
\* once; with completion disabled there are none.
C23_CompletionCandidates ==
    is_some(completion) =>
        /\ unwrap(completion).value.pos = 0
        /\ Range(unwrap(completion).value.ret) =
              IF self.use_completion
              THEN {name \in DOMAIN self.commands : IsSubstring(unwrap(completion).line, name)}
              ELSE {}
        /\ Len(unwrap(completion).value.ret) = Cardinality(Range(unwrap(completion).value.ret))

C23_Witness ==
    /\ is_some(completion)
    /\ self.use_completion
    /\ DOMAIN self.commands = CompletionNames
    /\ unwrap(completion).line = <<"e", "l">>
    /\ unwrap(completion).value.ret = <<Str_help>>

\* ------------------------------------------------------------------------
\* Properties of type conversion in a callback
\* ------------------------------------------------------------------------
\* The arguments bound by the line just handled of which the first one that
\* `add` converts and that is no integer is `name`.
ConversionFailedOn(name) ==
    /\ pc = "handled"
    /\ invoked # <<>>
    /\ invoked[1].callback = "add"
    /\ ~parse_i32(invoked[1].args[name].value).ok
    /\ name = Str_b => parse_i32(invoked[1].args[Str_a].value).ok

ConversionFailed == \E name \in ParameterNames : ConversionFailedOn(name)

Mentions(error, name) == \E i \in 1..Len(error.strs) : error.strs[i] = name

UniqueNames(cmd) ==
    \A i, j \in 1..Len(cmd.parameters) :
        i # j => cmd.parameters[i].name # cmd.parameters[j].name

\* C26: neither the command that successful with_parameter calls have
\* built nor a registered command holds two parameters with the same name.
C26_ParameterNamesUnique ==
    /\ \A c \in Range(command) : UniqueNames(c)
    /\ \A k \in DOMAIN self.commands : UniqueNames(self.commands[k])

RequiredFirst(cmd) ==
    \A i, j \in 1..Len(cmd.parameters) :
        (i < j /\ cmd.parameters[j].required) => cmd.parameters[i].required

\* C27: every command, whether being built, left by a rejected
\* with_parameter call or registered, has its required parameters before
\* its non-required ones; so when the binder reports a missing required
\* argument, the parameter it names is the first one without a token.
C27_RequiredBeforeOptional ==
    /\ \A c \in Range(command) \cup Range(dropped) : RequiredFirst(c)
    /\ \A k \in DOMAIN self.commands : RequiredFirst(self.commands[k])
    /\ (BinderRan /\ BinderError("MissingRequiredArgument")) =>
          /\ Len(LineArgs) < Len(LineParameters)
          /\ LineParameters[Len(LineArgs) + 1].required
          /\ unwrap(validated) =
                Err(MissingRequiredArgument(LineCommand,
                                            LineParameters[Len(LineArgs) + 1].name))

C27_Witness ==
    /\ BinderRan
    /\ BinderError("MissingRequiredArgument")
    /\ Len(LineArgs) = 0
    /\ Len(LineParameters) = 2
    /\ LineParameters[1].required
    /\ ~LineParameters[2].required

\* ------------------------------------------------------------------------
\* Properties of the callback's invocation
\* ------------------------------------------------------------------------
DispatchFailureKinds == {"UnknownCommand", "TooManyArguments", "MissingRequiredArgument"}

\* C28: handle_line invokes at most one callback, that of the registered
\* command named by the first token, with the map the binder returned; when
\* the line fails with UnknownCommand, TooManyArguments or
\* MissingRequiredArgument no callback runs and the context is what it was.
C28_CallbackOnlyAfterBinding ==
    [][op' = "handle_line" =>
         /\ Len(invoked') <= 1
         /\ invoked' # <<>> =>
               /\ is_some(tokens')
               /\ unwrap(tokens')[1] \in DOMAIN self.commands
               /\ invoked'[1].command = self.commands[unwrap(tokens')[1]].name
               /\ invoked'[1].callback = self.commands[unwrap(tokens')[1]].callback
               /\ is_some(validated')
               /\ unwrap(validated').ok
               /\ invoked'[1].args = unwrap(unwrap(validated').val)
         /\ (\E i \in 1..Len(handled') : handled'[i].kind \in DispatchFailureKinds) =>
               /\ invoked' = <<>>
               /\ self'.context = self.context]_vars

C28_Witness ==
    /\ BinderRan
    /\ BinderError("TooManyArguments")
    /\ handled = <<TooManyArguments(LineCommand, Len(LineParameters))>>
    /\ invoked = <<>>
    /\ self.context = "c1"

\* ------------------------------------------------------------------------
\* Properties of Parameter's setters
\* ------------------------------------------------------------------------
\* C29: every set_required call on a parameter that has a default, with
\* TRUE as with FALSE, returns Err(IllegalRequiredError) carrying the
\* parameter's name; every set_default call on a parameter that is not
\* required returns Ok with the parameter holding the default passed.
C29_SettersGuards ==
    [][/\ (op' = "set_required" /\ is_some(parameter)
            /\ is_some(unwrap(parameter).default))
          => (/\ result' = Some(Outcome(Err(IllegalRequiredError(unwrap(parameter).name))))
              /\ parameter' = None)
       /\ (op' = "set_default" /\ is_some(parameter) /\ ~unwrap(parameter).required)
          => (/\ unwrap(result').ok
              /\ \E default \in Defaults :
                    parameter' = Some([unwrap(parameter) EXCEPT !.default = Some(default)]))]_vars

C29_Witness ==
    /\ op = "set_required"
    /\ parameter = None
    /\ is_some(result)
    /\ ~unwrap(result).ok
    /\ unwrap(unwrap(result).err).kind = "IllegalRequiredError"

\* ------------------------------------------------------------------------
\* Termination of run
\* ------------------------------------------------------------------------
Collected(line) == IF trim(line) = <<>> THEN None ELSE Some(tokenize(trim(line)))

InOrder ==
    /\ Len(processed) <= Len(unwrap(reader).lines)
    /\ \A i \in 1..Len(processed) : processed[i] = Collected(unwrap(reader).lines[i])

\* C30: when the line reader delivers finitely many lines and then the end
\* of input, run eventually returns; the lines process_line was given are,
\* in order and once each, the lines delivered up to the one at which the
\* error handler returned an error, and all of them when run returns Ok.
C30_RunTerminates ==
    /\ <>(pc = "returned")
    /\ [](InOrder)
    /\ []((pc = "returned" /\ unwrap(run_result).ok) =>
             (eof /\ Len(processed) = Len(unwrap(reader).lines)))
    /\ []((pc = "returned" /\ ~unwrap(run_result).ok) =>
             unwrap(reader).pos = Len(processed) + 1)

C30_Witness ==
    /\ pc = "returned"
    /\ is_some(reader)
    /\ unwrap(run_result).ok
    /\ Len(processed) = 3
    /\ processed[1] # processed[2]
    /\ processed[3] = None

\* ------------------------------------------------------------------------
\* Properties of the tokens of any line
\* ------------------------------------------------------------------------
\* C31: a line that is not empty after trimming yields at least one token;
\* the first token is the command name that is dispatched, the others are
\* its arguments, and no token contains a double quote.
C31_TokensNonEmptyAndQuoteFree ==
    (pc = "processed" /\ trim(unwrap(input).text) # <<>>) =>
        /\ is_some(tokens)
        /\ Len(unwrap(tokens)) >= 1
        /\ \A i \in 1..Len(unwrap(tokens)) : Quote \notin Range(unwrap(tokens)[i])
        /\ Dispatched(Head(unwrap(tokens)), Tail(unwrap(tokens)))

C31_Witness ==
    /\ pc = "processed"
    /\ unwrap(input).text = <<Quote, Quote, " ", "a", Quote, "a">>
    /\ tokens = Some(<<<<>>, <<"a", "a">>>>)
    /\ line_result = Some(Err(UnknownCommand(<<>>)))

\* ------------------------------------------------------------------------
\* Properties of `help` with arguments
\* ------------------------------------------------------------------------
\* C32: a line whose first token is `help` never yields TooManyArguments,
\* however many tokens follow; with arguments, what is written is what
\* show_help writes for the first argument alone.
C32_HelpIgnoresArity ==
    (pc = "handled" /\ is_some(tokens) /\ LineCommand = Str_help) =>
        /\ \A i \in 1..Len(handled) : handled[i].kind # "TooManyArguments"
        /\ LineArgs # <<>> =>
              /\ stdout = show_help(self, EmptyIo, <<LineArgs[1]>>).io.stdout
              /\ stderr = show_help(self, EmptyIo, <<LineArgs[1]>>).io.stderr

====
